---- MODULE Spec2Model ----
(***************************************************************************)
(* Capsule CoreDNS plugin: the reverse-lookup authorization engine         *)
(* (controller.go) and the query handler that consults it (handler.go).    *)
(*                                                                         *)
(* The informer caches of client-go are modelled by their contract: a      *)
(* store of objects keyed by "namespace/name", a table of named index      *)
(* functions, ListKeys() = the keys of the stored objects, and             *)
(* ByIndex(indexName, value) = an error when no index function is          *)
(* registered under indexName, otherwise the stored objects whose index    *)
(* function yields value.                                                  *)
(*                                                                         *)
(* controller.go carries an unresolved merge conflict in getObjectByIP     *)
(* (lines 196-203).  TenantAuthorized consumes three return values, which  *)
(* only the second side of the conflict provides, so that side is the one  *)
(* modelled.                                                               *)
(***************************************************************************)
EXTENDS Naturals, Sequences, FiniteSets, TLC

\* ------------------------------------------------------------------------
\* Program constants (controller.go:16-21)
PodIPIndex == "podIPs"
SvcClusterIPIndex == "clusterIPs"
NsIndex == "name"
CapsuleTenantLabel == "capsule.clastix.io/tenant"

\* ------------------------------------------------------------------------
\* Bounded universes of the model
IPs == {"10.0.0.1", "10.0.0.2"}
NsNames == {"nsA", "nsB"}
Tenants == {"t1", "t2"}
DnsLabel == "capsule.io/dns"
ExposeLabel == "capsule.io/expose-dns"

\* The empty label map.
NoLabels == << >>

\* Label maps a namespace can carry: an optional tenant label and an
\* optional whitelist label.
NsLabelSets ==
    { t @@ d : t \in {NoLabels} \cup { CapsuleTenantLabel :> v : v \in Tenants },
               d \in {NoLabels, DnsLabel :> "enabled"} }

\* Label maps a pod or a service can carry.
ResLabelSets == {NoLabels, ExposeLabel :> "true"}

\* Kinds of informer: the two in reverseIpInformers, and nsInformer.
PodKind == "pod"
SvcKind == "svc"
NsKind == "ns"
Kinds == {PodKind, SvcKind, NsKind}

\* The objects of the model: a pod "p" in either namespace, a service "s"
\* in one namespace, the two namespaces.  A pod or service holds one
\* address (pod.Status.PodIPs / svc.Spec.ClusterIPs); type is the Go
\* dynamic type of the stored object.
SvcNsNames == {"nsB"}
AddrSets == { {ip} : ip \in IPs }

PodObjs ==
    [ type : {"*v1.Pod"}, namespace : NsNames, name : {"p"},
      ips : AddrSets, labels : ResLabelSets ]

SvcObjs ==
    [ type : {"*v1.Service"}, namespace : SvcNsNames, name : {"s"},
      ips : AddrSets, labels : ResLabelSets ]

NsObjs ==
    [ type : {"*v1.Namespace"}, namespace : {""}, name : NsNames,
      ips : {{}}, labels : NsLabelSets ]

ObjsOf(kind) ==
    CASE kind = PodKind -> PodObjs
      [] kind = SvcKind -> SvcObjs
      [] kind = NsKind  -> NsObjs

\* cache.MetaNamespaceKeyFunc: "namespace/name", or "name" for a
\* cluster-scoped object.
KeyOf(obj) ==
    IF obj.namespace = "" THEN obj.name ELSE obj.namespace \o "/" \o obj.name

\* A store holds at most one object per key.
StoresOf(kind) ==
    { s \in SUBSET ObjsOf(kind) :
        \A a, b \in s : KeyOf(a) = KeyOf(b) => a = b }

\* *meta.LabelSelector as produced by meta.ParseToLabelSelector: nil, or a
\* conjunction of requirements key -> set of admitted values.
NilSelector == [ nil |-> TRUE, reqs |-> NoLabels ]
Selector(reqs) == [ nil |-> FALSE, reqs |-> reqs ]
LabelSelectors == { NilSelector, Selector(ExposeLabel :> {"true"}) }
NamespaceLabelSelectors == { NilSelector, Selector(DnsLabel :> {"enabled"}) }

\* The capsule block of the Corefile: the arguments of its labels and its
\* namespace_labels directive, joined by a space; "" when the directive is
\* not given.
Blocks ==
    [ labels : {"", "capsule.io/expose-dns=true"},
      namespace_labels : {"", "capsule.io/dns=enabled"} ]

\* The expressions meta.ParseToLabelSelector accepts, of those the model
\* hands it; it returns an error for every other one.
SelectorStrings ==
    { "capsule.io/expose-dns=true", "capsule.io/dns=enabled",
      "capsule.io/dns in (enabled)" }

\* meta.ParseToLabelSelector for the expressions of SelectorStrings:
\* key=value and key in (value) both become the requirement key in {value}.
ParseToLabelSelector(str) ==
    CASE str = "capsule.io/expose-dns=true"
           -> Selector(ExposeLabel :> {"true"})
      [] str = "capsule.io/dns=enabled"
           -> Selector(DnsLabel :> {"enabled"})
      [] str = "capsule.io/dns in (enabled)"
           -> Selector(DnsLabel :> {"enabled"})

\* Bound of the model: directives in a capsule block.
MaxDirectives == 2

\* The directives of a capsule block: the name, and the arguments on its
\* line.  "label" is a name Parse does not know; the last argument list is
\* two expressions that do not form one selector.
DirectiveNames == {"labels", "namespace_labels", "label"}
ArgLists ==
    { << >>,
      << "capsule.io/expose-dns=true" >>,
      << "capsule.io/dns=enabled" >>,
      << "capsule.io/dns", "in", "(enabled)" >>,
      << "capsule.io/dns=enabled", "capsule.io/expose-dns=true" >> }
Directives == [ name : DirectiveNames, args : ArgLists ]
DirectiveSeqs ==
    UNION { [ 1..n -> Directives ] : n \in 0..MaxDirectives }

\* strings.Join(args, " ").
RECURSIVE Join(_)
Join(args) ==
    IF Len(args) = 0 THEN ""
    ELSE IF Len(args) = 1 THEN args[1]
    ELSE args[1] \o " " \o Join(Tail(args))

\* Variant of ParseFrom: a selector already set is not replaced.
RECURSIVE ParseFromKeepFirst(_, _, _)
ParseFromKeepFirst(ds, i, h) ==
    IF i > Len(ds) THEN [ err |-> "", at |-> 0, h |-> h ]
    ELSE LET d == ds[i]
             str == Join(d.args)
         IN  CASE d.name = "labels" ->
                    IF Len(d.args) > 0
                    THEN IF str \notin SelectorStrings
                         THEN [ err |-> "selector", at |-> i, h |-> h ]
                         ELSE ParseFromKeepFirst(ds, i + 1,
                                  IF h.labelSelector.nil
                                  THEN [ h EXCEPT !.labelSelector =
                                             ParseToLabelSelector(str) ]
                                  ELSE h)
                    ELSE [ err |-> "ArgErr", at |-> i, h |-> h ]
               [] d.name = "namespace_labels" ->
                    IF Len(d.args) > 0
                    THEN IF str \notin SelectorStrings
                         THEN [ err |-> "selector", at |-> i, h |-> h ]
                         ELSE ParseFromKeepFirst(ds, i + 1,
                                  IF h.namespaceLabelSelector.nil
                                  THEN [ h EXCEPT !.namespaceLabelSelector =
                                             ParseToLabelSelector(str) ]
                                  ELSE h)
                    ELSE [ err |-> "ArgErr", at |-> i, h |-> h ]
               [] OTHER -> [ err |-> "unknown property", at |-> i, h |-> h ]

\* The loop of Capsule.Parse (handler.go:45-84) from directive i of ds on
\* the handler fields h: the error returned, "" for nil, the directive it
\* is returned at, and the fields as Parse leaves them.
RECURSIVE ParseFrom(_, _, _)
ParseFrom(ds, i, h) ==
    IF i > Len(ds) THEN [ err |-> "", at |-> 0, h |-> h ]
    ELSE LET d == ds[i]
             str == Join(d.args)
         IN  CASE d.name = "labels" ->
                    IF Len(d.args) > 0
                    THEN IF str \notin SelectorStrings
                         THEN [ err |-> "selector", at |-> i, h |-> h ]
                         ELSE ParseFrom(ds, i + 1,
                                  [ h EXCEPT !.labelSelector =
                                        ParseToLabelSelector(str) ])
                    ELSE [ err |-> "ArgErr", at |-> i, h |-> h ]
               [] d.name = "namespace_labels" ->
                    IF Len(d.args) > 0
                    THEN IF str \notin SelectorStrings
                         THEN [ err |-> "selector", at |-> i, h |-> h ]
                         ELSE ParseFrom(ds, i + 1,
                                  [ h EXCEPT !.namespaceLabelSelector =
                                        ParseToLabelSelector(str) ])
                    ELSE [ err |-> "ArgErr", at |-> i, h |-> h ]
               [] OTHER -> [ err |-> "unknown property", at |-> i, h |-> h ]

\* The directives a block of Blocks stands for.
DirectivesOf(block) ==
    ( IF block.labels = "" THEN << >>
      ELSE << [ name |-> "labels", args |-> << block.labels >> ] >> )
    \o ( IF block.namespace_labels = "" THEN << >>
         ELSE << [ name |-> "namespace_labels",
                   args |-> << block.namespace_labels >> ] >> )

\* Capsule.Parse on a handler whose selectors are nil: a directive with
\* arguments sets its selector, the other selector stays nil.
Parse(block) ==
    ParseFrom(DirectivesOf(block), 1,
              [ labelSelector |-> NilSelector,
                namespaceLabelSelector |-> NilSelector ]).h

\* Bounds of the model: changes made to the cluster while the plugin
\* runs, watch events pending per informer, records the resolver returns.
MaxChanges == 1
MaxQueue == 1
MaxRecords == 2

\* Query types: the two GetDestIp resolves, and any other.
QTypes == {"A", "AAAA", "other"}

\* What plugin.A / plugin.AAAA can return: an error, or a list of records.
RECURSIVE SeqsUpTo(_, _)
SeqsUpTo(S, n) ==
    IF n = 0 THEN { << >> }
    ELSE LET shorter == SeqsUpTo(S, n - 1)
         IN  shorter \cup { Append(q, x) : q \in shorter, x \in S }

ResolverResults ==
    { [ err |-> TRUE, records |-> << >> ] }
    \cup { [ err |-> FALSE, records |-> q ] : q \in SeqsUpTo(IPs, MaxRecords) }

\* The resolver's answer to a query: it has something to resolve only for
\* an A or AAAA query in the zone.
ResolverAnswers(zoneMatch, qtype) ==
    IF zoneMatch /\ qtype \in {"A", "AAAA"}
    THEN ResolverResults
    ELSE { [ err |-> TRUE, records |-> << >> ] }

\* No decision recorded.
NoDecision ==
    [ made |-> FALSE, from |-> "", to |-> "", result |-> "" ]

\* No query handled yet.
NoReply ==
    [ handled |-> FALSE, zone |-> FALSE, gate |-> FALSE, qtype |-> "",
      answer |-> "none", outcome |-> "", rcode |-> "", resolver |-> FALSE, engine |-> FALSE,
      next |-> "" ]

\* No query in flight, none returned yet.
NoCall ==
    [ pc |-> "idle", from |-> "", to |-> "", qtype |-> "", tenant |-> "",
      began |-> << >>, raced |-> FALSE ]

\* No call of Parse: src/setup.go makes none.
NoParse == [ pc |-> "idle", directives |-> << >>, err |-> "", at |-> 0 ]

\* No query given in advance: the inputs of ServeDNS are chosen when it
\* is called.
NoQuery ==
    [ served |-> FALSE, src |-> "", qtype |-> "",
      res |-> [ err |-> TRUE, records |-> << >> ], refused |-> {} ]

VARIABLES
    cluster,                 \* cluster[kind]: the objects the API server holds
    store,                   \* store[kind]: the objects in that informer's cache
    running,                 \* running[kind]: Run was started on the informer
    informerSynced,          \* informerSynced[kind]: the informer's HasSynced
    queue,                   \* queue[kind]: watch events not yet applied
    changes,                 \* number of cluster changes and re-deliveries
    applied,                 \* the watch event an informer applied last
    everShared,              \* kinds in which two objects ever shared an address
    startPc,                 \* position of the dnsController.Start goroutine
    hasSynced,               \* dnsController.hasSynced
    labelSelector,           \* Capsule.labelSelector
    namespaceLabelSelector,  \* Capsule.namespaceLabelSelector
    config,                  \* the capsule block of the operator's Corefile
    controllerBuilt,         \* newDNSController returned a controller
    kubernetesLoaded,        \* the server block loads the kubernetes plugin
    kubernetesNext,          \* kubernetesHandler.Next: "nil" or "handler"
    parse,                   \* the call of Capsule.Parse and what it returned
    query,                   \* a query given in advance, with its environment
    call,                    \* the query whose TenantAuthorized call is in flight
    decision,                \* the TenantAuthorized call of the last operation
    reply                    \* what ServeDNS did with the last query

vars ==
    << cluster, store, running, informerSynced, queue, changes, applied,
       everShared, startPc, hasSynced, labelSelector, namespaceLabelSelector, config,
       controllerBuilt, kubernetesLoaded, kubernetesNext, parse, query,
       call, decision, reply >>

cacheVars ==
    << cluster, store, running, informerSynced, queue, changes, applied,
       everShared >>
configVars ==
    << labelSelector, namespaceLabelSelector, config, controllerBuilt,
       kubernetesLoaded, kubernetesNext, parse, query >>

\* The Capsule value handed to TenantAuthorized.
Handler ==
    [ labelSelector |-> labelSelector,
      namespaceLabelSelector |-> namespaceLabelSelector ]

\* ------------------------------------------------------------------------
\* Indexers (controller.go:45-94)

\* Names of the index functions registered on each informer by AddIndexers.
Indexers(kind) ==
    CASE kind = PodKind -> {PodIPIndex}
      [] kind = SvcKind -> {SvcClusterIPIndex}
      [] kind = NsKind  -> {NsIndex}

\* Variant of IndexFunc: a namespace is indexed under its name in lower
\* case.
IndexFuncFolded(indexName, obj) ==
    CASE indexName = PodIPIndex        -> obj.ips
      [] indexName = SvcClusterIPIndex -> obj.ips
      [] indexName = NsIndex           ->
            IF obj.name = "" THEN {}
            ELSE IF obj.name = "nsA" THEN {"nsa"} ELSE {obj.name}

\* The index functions: the values under which an object is indexed.
IndexFunc(indexName, obj) ==
    CASE indexName = PodIPIndex        -> obj.ips
      [] indexName = SvcClusterIPIndex -> obj.ips
      [] indexName = NsIndex           ->
            IF obj.name = "" THEN {} ELSE {obj.name}

\* Variant of ListKeys: the probe loop walks the names of the registered
\* index functions instead of the keys of the stored objects.
ListKeysIndexNames(kind) == Indexers(kind)

\* informer.GetIndexer().ListKeys(): the keys of the stored objects.
ListKeys(kind) == { KeyOf(o) : o \in store[kind] }

\* informer.GetIndexer().ByIndex(indexName, indexedValue).
ByIndex(kind, indexName, indexedValue) ==
    IF indexName \notin Indexers(kind)
    THEN [ err |-> TRUE, objs |-> {} ]
    ELSE [ err |-> FALSE,
           objs |-> { o \in store[kind] :
                        indexedValue \in IndexFunc(indexName, o) } ]

\* ------------------------------------------------------------------------
\* Lookups (controller.go:185-218)

NilNs == [ nil |-> TRUE, name |-> "", labels |-> NoLabels ]
SomeNs(o) == [ nil |-> FALSE, name |-> o.name, labels |-> o.labels ]
NilObj == [ nil |-> TRUE, type |-> "", labels |-> NoLabels ]
SomeObj(o) == [ nil |-> FALSE, type |-> o.type, labels |-> o.labels ]

\* getNSByName: the possible results; objs[0] is any of the matches.
getNSByName(name) ==
    LET r == ByIndex(NsKind, NsIndex, name)
    IN  IF r.err \/ r.objs = {}
        THEN { NilNs }
        ELSE { SomeNs(o) : o \in r.objs }

\* The informers probed by getObjectByIP, in order (controller.go:62,81).
reverseIpInformers == << PodKind, SvcKind >>

\* meta := objs[0].(*metav1.ObjectMeta): a plain type assertion to a
\* concrete type succeeds only when the dynamic type is that very type.
AssertObjectMeta(o) == o.type = "*metav1.ObjectMeta"

\* The results getObjectByIP can return out of one informer: for some key
\* of ListKeys whose ByIndex call succeeds with a non-empty list, the
\* outcome for objs[0].  Empty when every key is skipped by `continue`.
ProbeInformer(kind, ip) ==
    UNION { LET r == ByIndex(kind, key, ip)
            IN  IF r.err \/ r.objs = {}
                THEN {}
                ELSE UNION { IF ~AssertObjectMeta(o)
                             THEN { [ panic |-> TRUE, ns |-> NilNs,
                                      obj |-> NilObj ] }
                             ELSE { [ panic |-> FALSE, ns |-> n,
                                      obj |-> SomeObj(o) ] :
                                    n \in getNSByName(o.namespace) }
                           : o \in r.objs }
          : key \in ListKeys(kind) }

RECURSIVE ProbeFrom(_, _)
ProbeFrom(i, ip) ==
    IF i > Len(reverseIpInformers)
    THEN { [ panic |-> FALSE, ns |-> NilNs, obj |-> NilObj ] }
    ELSE LET found == ProbeInformer(reverseIpInformers[i], ip)
         IN  IF found # {} THEN found ELSE ProbeFrom(i + 1, ip)

\* Variant of getObjectByIP: each informer is asked under its registered
\* index name and the object found is used as it is stored.
getObjectByIPIndexed(ip) ==
    LET pods == ByIndex(PodKind, PodIPIndex, ip).objs
        svcs == ByIndex(SvcKind, SvcClusterIPIndex, ip).objs
        found == IF pods # {} THEN pods ELSE svcs
    IN  IF found = {}
        THEN { [ panic |-> FALSE, ns |-> NilNs, obj |-> NilObj ] }
        ELSE UNION { { [ panic |-> FALSE, ns |-> n, obj |-> SomeObj(o) ] :
                       n \in getNSByName(o.namespace) }
                   : o \in found }

\* getObjectByIP: the possible results (namespace, object), or a panic.
getObjectByIP(ip) == ProbeFrom(1, ip)

\* ------------------------------------------------------------------------
\* Decision (controller.go:138-179)

\* selector.Matches(labels.Set(l)) for the selector LabelSelectorAsSelector
\* builds: every requirement's key is present with an admitted value.
Matches(sel, l) ==
    \A k \in DOMAIN sel.reqs : k \in DOMAIN l /\ l[k] \in sel.reqs[k]

\* Lines 154-178, once the source tenant is known.
DecideDestination(tenantFrom, dst, h) ==
    IF dst.panic THEN "panic"
    ELSE IF dst.ns.nil THEN "allow"
    ELSE IF /\ ~dst.obj.nil
            /\ dst.obj.type = "*v1.Service"
            /\ ~h.labelSelector.nil
            /\ Matches(h.labelSelector, dst.obj.labels)
         THEN "allow"
    ELSE IF /\ ~h.namespaceLabelSelector.nil
            /\ Matches(h.namespaceLabelSelector, dst.ns.labels)
         THEN "allow"
    ELSE IF CapsuleTenantLabel \notin DOMAIN dst.ns.labels THEN "deny"
    ELSE IF tenantFrom = dst.ns.labels[CapsuleTenantLabel]
         THEN "allow" ELSE "deny"

\* Variant of TenantAuthorized: a source that resolves to no namespace is
\* refused instead of let through.
TenantAuthorizedFailClosed(from, to, h) ==
    UNION { IF src.panic THEN {"panic"}
            ELSE IF src.ns.nil THEN {"deny"}
            ELSE IF CapsuleTenantLabel \notin DOMAIN src.ns.labels
                 THEN {"allow"}
            ELSE { DecideDestination(src.ns.labels[CapsuleTenantLabel],
                                     dst, h) : dst \in getObjectByIP(to) }
          : src \in getObjectByIP(from) }

\* TenantAuthorized: the possible results, "allow" for true, "deny" for
\* false, "panic" when a lookup panics.
TenantAuthorized(from, to, h) ==
    UNION { IF src.panic THEN {"panic"}
            ELSE IF src.ns.nil THEN {"allow"}
            ELSE IF CapsuleTenantLabel \notin DOMAIN src.ns.labels
                 THEN {"allow"}
            ELSE { DecideDestination(src.ns.labels[CapsuleTenantLabel],
                                     dst, h) : dst \in getObjectByIP(to) }
          : src \in getObjectByIP(from) }

\* ------------------------------------------------------------------------
\* The decision procedure on its own: any well-formed cache contents and
\* selector configuration, as if every cache had been filled, then calls
\* of TenantAuthorized.

\* No watch event applied yet.
NoApplied ==
    [ done |-> FALSE, kind |-> "", deleted |-> FALSE, old |-> {},
      new |-> {} ]

\* The kinds in which two objects of cl are indexed under one address.
SharedKinds(cl) ==
    { k \in Kinds :
        \E x, y \in cl[k] :
            /\ KeyOf(x) # KeyOf(y)
            /\ \E ix \in Indexers(k) :
                  IndexFunc(ix, x) \cap IndexFunc(ix, y) # {} }

InitAuth ==
    /\ \E p \in StoresOf(PodKind), s \in StoresOf(SvcKind),
          n \in StoresOf(NsKind) :
          /\ store = (PodKind :> p @@ SvcKind :> s @@ NsKind :> n)
          /\ cluster = store
          /\ everShared = SharedKinds(store)
    /\ applied = NoApplied
    /\ running = [ k \in Kinds |-> TRUE ]
    /\ informerSynced = [ k \in Kinds |-> TRUE ]
    /\ queue = [ k \in Kinds |-> << >> ]
    /\ changes = 0
    /\ startPc = "blocked"
    /\ hasSynced = TRUE
    /\ reply = NoReply
    /\ labelSelector \in LabelSelectors
    /\ namespaceLabelSelector \in NamespaceLabelSelectors
    /\ config \in Blocks
    /\ Parse(config) = Handler
    /\ controllerBuilt = TRUE
    /\ parse = NoParse
    /\ query = NoQuery
    /\ kubernetesLoaded = TRUE
    /\ kubernetesNext = "handler"
    /\ call = NoCall
    /\ decision = NoDecision

Authorize(from, to) ==
    /\ \E r \in TenantAuthorized(from, to, Handler) :
          decision' = [ made |-> TRUE, from |-> from, to |-> to,
                        result |-> r ]
    /\ UNCHANGED << cacheVars, configVars, call, startPc, hasSynced, reply >>

NextAuth == \E from \in IPs, to \in IPs : Authorize(from, to)

SpecAuth == InitAuth /\ [][NextAuth]_vars

\* ------------------------------------------------------------------------
\* The plugin in a cluster: startup, the informers, the query handler.

\* The cluster the plugin starts in: a pod of tenant t1 and a service of
\* tenant t2, each in its own namespace.
BaseCluster ==
    PodKind :> { [ type |-> "*v1.Pod", namespace |-> "nsA", name |-> "p",
                   ips |-> {"10.0.0.1"}, labels |-> NoLabels ] }
    @@ SvcKind :> { [ type |-> "*v1.Service", namespace |-> "nsB",
                      name |-> "s", ips |-> {"10.0.0.2"},
                      labels |-> NoLabels ] }
    @@ NsKind :> { [ type |-> "*v1.Namespace", namespace |-> "",
                     name |-> "nsA", ips |-> {},
                     labels |-> CapsuleTenantLabel :> "t1" ],
                   [ type |-> "*v1.Namespace", namespace |-> "",
                     name |-> "nsB", ips |-> {},
                     labels |-> CapsuleTenantLabel :> "t2" ] }

\* setup and newDNSController: the informers exist, none runs, the caches
\* are empty, the gate is closed.  setup never calls Parse, so the
\* selectors of the handler are nil whatever the capsule block holds.
Init ==
    /\ cluster = BaseCluster
    /\ store = [ k \in Kinds |-> {} ]
    /\ running = [ k \in Kinds |-> FALSE ]
    /\ informerSynced = [ k \in Kinds |-> FALSE ]
    /\ queue = [ k \in Kinds |-> << >> ]
    /\ changes = 0
    /\ applied = NoApplied
    /\ everShared = SharedKinds(BaseCluster)
    /\ startPc = "idle"
    /\ hasSynced = FALSE
    /\ config \in Blocks
    /\ controllerBuilt \in BOOLEAN
    /\ parse = NoParse
    /\ query = NoQuery
    /\ kubernetesLoaded \in BOOLEAN
    /\ kubernetesNext \in IF kubernetesLoaded THEN {"nil", "handler"}
                               ELSE {"nil"}
    /\ labelSelector = NilSelector
    /\ namespaceLabelSelector = NilSelector
    /\ call = NoCall
    /\ decision = NoDecision
    /\ reply = NoReply

\* A store with the object of o's key replaced by o.
Upsert(objs, o) == { x \in objs : KeyOf(x) # KeyOf(o) } \cup {o}

\* The API server creates or updates an object; an informer that has
\* finished its listing receives a watch event.
ClusterApply(kind, o) ==
    /\ changes < MaxChanges
    /\ o \notin cluster[kind]
    /\ informerSynced[kind] => Len(queue[kind]) < MaxQueue
    /\ cluster' = [ cluster EXCEPT ![kind] = Upsert(@, o) ]
    /\ everShared' = everShared \cup SharedKinds(cluster')
    /\ queue' = IF informerSynced[kind]
                THEN [ queue EXCEPT
                         ![kind] = Append(@, [ deleted |-> FALSE, obj |-> o ]) ]
                ELSE queue
    /\ changes' = changes + 1
    /\ UNCHANGED << store, running, informerSynced, applied, startPc,
                    hasSynced, configVars, call, decision, reply >>

\* The API server deletes an object.
ClusterDelete(kind, o) ==
    /\ changes < MaxChanges
    /\ o \in cluster[kind]
    /\ informerSynced[kind] => Len(queue[kind]) < MaxQueue
    /\ cluster' = [ cluster EXCEPT ![kind] = @ \ {o} ]
    /\ queue' = IF informerSynced[kind]
                THEN [ queue EXCEPT
                         ![kind] = Append(@, [ deleted |-> TRUE, obj |-> o ]) ]
                ELSE queue
    /\ changes' = changes + 1
    /\ UNCHANGED << store, running, informerSynced, applied, everShared,
                    startPc, hasSynced, configVars, call, decision, reply >>

\* The watch of a synced informer is re-established and an object the API
\* server holds is delivered again, unchanged, as an update event.
Redeliver(kind) ==
    /\ changes < MaxChanges
    /\ informerSynced[kind]
    /\ Len(queue[kind]) < MaxQueue
    /\ \E o \in cluster[kind] :
          queue' = [ queue EXCEPT
                       ![kind] = Append(@, [ deleted |-> FALSE, obj |-> o ]) ]
    /\ changes' = changes + 1
    /\ UNCHANGED << cluster, store, running, informerSynced, applied,
                    everShared, startPc, hasSynced, configVars, call, decision,
                    reply >>

\* Variant of OnStartup: the controller is started without looking for the
\* kubernetes handler.
OnStartupUnchecked ==
    /\ startPc = "idle"
    /\ startPc' = "start"
    /\ UNCHANGED << cacheVars, hasSynced, configVars, call, decision, reply >>

\* setup (setup.go:19-53) and the closure it hands to AddPlugin: what
\* setup returns, and the handler the closure puts into the chain.  When
\* Setup fails the error is logged and the closure returns nil; setup has
\* returned nil before.
SetupResult ==
    [ err |-> FALSE,
      handler |-> IF controllerBuilt THEN "*Capsule" ELSE "nil" ]

\* The startup hook: when the kubernetes plugin is not loaded it returns
\* an error, and when no capsule handler is registered the type assertion
\* of line 42 panics; either way the server does not start.  Otherwise
\* go m.dnsController.Start().
OnStartup ==
    /\ startPc = "idle"
    /\ startPc' = IF kubernetesLoaded /\ SetupResult.handler = "*Capsule"
                  THEN "start" ELSE "failed"
    /\ UNCHANGED << cacheVars, hasSynced, configVars, call, decision, reply >>

\* Start, lines 106-121: go ctrl.Run for every informer of
\* reverseIpInformers.
StartRun ==
    /\ startPc = "start"
    /\ running' = [ k \in Kinds |->
                      \/ running[k]
                      \/ \E i \in 1..Len(reverseIpInformers) :
                            reverseIpInformers[i] = k ]
    /\ startPc' = "waiting"
    /\ UNCHANGED << cluster, store, informerSynced, queue, changes, applied,
                    everShared, hasSynced, configVars, call, decision, reply >>

\* A running informer completes its initial listing: the cache holds the
\* listed objects and the informer's HasSynced turns true.
InformerList(kind) ==
    /\ running[kind]
    /\ ~informerSynced[kind]
    /\ store' = [ store EXCEPT ![kind] = cluster[kind] ]
    /\ informerSynced' = [ informerSynced EXCEPT ![kind] = TRUE ]
    /\ UNCHANGED << cluster, running, queue, changes, applied, everShared,
                    startPc, hasSynced, configVars, call, decision, reply >>

\* Variant of ApplyTo: an update adds the new version and leaves the
\* version stored before in place.
ApplyToKeepStale(objs, e) ==
    IF e.deleted
    THEN { x \in objs : KeyOf(x) # KeyOf(e.obj) }
    ELSE objs \cup {e.obj}

\* Variant of ApplyTo: an update whose object is stored already, unchanged,
\* removes it.
ApplyToDropSame(objs, e) ==
    IF e.deleted
    THEN { x \in objs : KeyOf(x) # KeyOf(e.obj) }
    ELSE IF e.obj \in objs THEN objs \ {e.obj} ELSE Upsert(objs, e.obj)

\* The informer's cache after event e: a delete removes the object of that
\* key, an add or update stores the object under its key in place of the
\* version stored before; the indexes are recomputed from the stored
\* objects.
ApplyTo(objs, e) ==
    IF e.deleted
    THEN { x \in objs : KeyOf(x) # KeyOf(e.obj) }
    ELSE Upsert(objs, e.obj)

\* Variant of ApplyEvent: the informers write to one shared cache, so that
\* an event is applied to the cache of every kind.
ApplyEventShared(kind) ==
    /\ running[kind]
    /\ queue[kind] # << >>
    /\ LET e == Head(queue[kind])
       IN  /\ store' = [ k \in Kinds |-> ApplyTo(store[k], e) ]
           /\ applied' = [ done |-> TRUE, kind |-> kind,
                           deleted |-> e.deleted,
                           old |-> { x \in store[kind] :
                                      KeyOf(x) = KeyOf(e.obj) },
                           new |-> {e.obj} ]
    /\ queue' = [ queue EXCEPT ![kind] = Tail(@) ]
    /\ UNCHANGED << cluster, running, informerSynced, changes, everShared,
                    startPc, hasSynced, configVars, call, decision, reply >>

\* A running informer applies its next watch event to its cache.
ApplyEvent(kind) ==
    /\ running[kind]
    /\ queue[kind] # << >>
    /\ LET e == Head(queue[kind])
       IN  /\ store' = [ store EXCEPT ![kind] = ApplyTo(@, e) ]
           /\ applied' = [ done |-> TRUE, kind |-> kind,
                           deleted |-> e.deleted,
                           old |-> { x \in store[kind] :
                                      KeyOf(x) = KeyOf(e.obj) },
                           new |-> {e.obj} ]
    /\ queue' = [ queue EXCEPT ![kind] = Tail(@) ]
    /\ UNCHANGED << cluster, running, informerSynced, changes, everShared,
                    startPc, hasSynced, configVars, call, decision, reply >>

\* Variant of StartSynced: Start waits for the informers of all kinds, the
\* namespace informer included.
StartSyncedAllKinds ==
    /\ startPc = "waiting"
    /\ \A k \in Kinds : informerSynced[k]
    /\ hasSynced' = TRUE
    /\ startPc' = "blocked"
    /\ UNCHANGED << cacheVars, configVars, call, decision, reply >>

\* Start, lines 123-135: WaitForCacheSync returns true once every informer
\* of reverseIpInformers has synced; the gate opens and Start blocks on
\* stopCh.  Nothing closes stopCh, so the failure branch is never taken.
StartSynced ==
    /\ startPc = "waiting"
    /\ \A i \in 1..Len(reverseIpInformers) :
          informerSynced[reverseIpInformers[i]]
    /\ hasSynced' = TRUE
    /\ startPc' = "blocked"
    /\ UNCHANGED << cacheVars, configVars, call, decision, reply >>

\* Variant of HasSynced: ready only while no watch event is pending.
HasSyncedQueueEmpty ==
    hasSynced /\ \A k \in Kinds : queue[k] = << >>

\* dnsController.HasSynced: a plain read of the flag Start writes.
HasSynced == hasSynced

\* Variant of GetDestIp: an empty record set is no error, the destIp handed
\* in stands.
GetDestIpEmptyOk(qtype, res, destIp) ==
    IF qtype \in {"A", "AAAA"}
    THEN IF res.err THEN [ err |-> TRUE, ip |-> "" ]
         ELSE IF Len(res.records) = 0 THEN [ err |-> FALSE, ip |-> destIp ]
         ELSE [ err |-> FALSE, ip |-> res.records[1] ]
    ELSE [ err |-> FALSE, ip |-> destIp ]

\* Variant of GetDestIp: the last record of the resolver is taken.
GetDestIpLast(qtype, res, destIp) ==
    IF qtype \in {"A", "AAAA"}
    THEN IF res.err THEN [ err |-> TRUE, ip |-> "" ]
         ELSE IF Len(res.records) = 0 THEN [ err |-> TRUE, ip |-> "" ]
         ELSE [ err |-> FALSE, ip |-> res.records[Len(res.records)] ]
    ELSE [ err |-> FALSE, ip |-> destIp ]

\* GetDestIp: for an A or AAAA query the first record of the resolver, an
\* error when the resolver fails or returns none; for any other type the
\* destIp handed in.
GetDestIp(qtype, res, destIp) ==
    IF qtype \in {"A", "AAAA"}
    THEN IF res.err THEN [ err |-> TRUE, ip |-> "" ]
         ELSE IF Len(res.records) = 0 THEN [ err |-> TRUE, ip |-> "" ]
         ELSE [ err |-> FALSE, ip |-> res.records[1] ]
    ELSE [ err |-> FALSE, ip |-> destIp ]

\* What ServeDNS does with a query: the outcome, the status it returns
\* ("next" for the status of the handler it calls), whether the resolver
\* and TenantAuthorized were invoked, and which next handler was called.
Did(outcome, rcode, resolver, engine, next, dec) ==
    [ reply |-> [ outcome |-> outcome, rcode |-> rcode,
                  resolver |-> resolver, engine |-> engine, next |-> next ],
      decision |-> dec ]

\* Variant of Respond: a refused query is handed to the next handler.
RespondDenyForwards(r, resolved, dec) ==
    CASE r = "deny"  -> Did("forward", "next", resolved, TRUE, "h.Next", dec)
      [] r = "allow" -> Did("forward", "next", resolved, TRUE, "h.Next", dec)
      [] r = "panic" -> Did("panic", "", resolved, TRUE, "none", dec)

\* Variant of Respond: an allowed query is answered by the plugin itself.
RespondAllowAnswers(r, resolved, dec) ==
    CASE r = "deny"  -> Did("denied", "NOERROR", resolved, TRUE, "none", dec)
      [] r = "allow" -> Did("forward", "NOERROR", resolved, TRUE, "none", dec)
      [] r = "panic" -> Did("panic", "", resolved, TRUE, "none", dec)

\* Variant of Respond: a refused query is answered with a failure status.
RespondDenyServerFailure(r, resolved, dec) ==
    CASE r = "deny"  -> Did("denied", "SERVFAIL", resolved, TRUE, "none", dec)
      [] r = "allow" -> Did("forward", "next", resolved, TRUE, "h.Next", dec)
      [] r = "panic" -> Did("panic", "", resolved, TRUE, "none", dec)

\* ServeDNS, lines 110-114: on false, BackendError with RcodeSuccess (a
\* NOERROR message without answer records) and no call of h.Next; on true,
\* h.Next.ServeDNS and its status.  A panic of TenantAuthorized leaves
\* ServeDNS without a response.
Respond(r, resolved, dec) ==
    CASE r = "deny"  -> Did("denied", "NOERROR", resolved, TRUE, "none", dec)
      [] r = "allow" -> Did("forward", "next", resolved, TRUE, "h.Next", dec)
      [] r = "panic" -> Did("panic", "", resolved, TRUE, "none", dec)

\* plugin.NextOrFailure with kubernetesHandler.Next (line 93): the query is
\* handed to the handler after the kubernetes plugin; when there is none,
\* the status is server failure ("no next plugin found").
NextOrFailure ==
    IF kubernetesNext = "nil"
    THEN Did("nextOrFailure", "SERVFAIL", FALSE, FALSE, "none", NoDecision)
    ELSE Did("nextOrFailure", "next", FALSE, FALSE,
             "kubernetesHandler.Next", NoDecision)

\* Variant of ServeDNSCore: the gate is consulted before the zone.
ServeDNSCoreGateFirst(src, zoneMatch, qtype, res, auth) ==
    IF ~HasSynced
    THEN { Did("servfail", "SERVFAIL", FALSE, FALSE, "none", NoDecision) }
    ELSE IF ~zoneMatch
    THEN { NextOrFailure }
    ELSE LET d == GetDestIp(qtype, res, src)
             resolved == qtype \in {"A", "AAAA"}
         IN  IF d.err
             THEN { Did("fallthrough", "next", resolved, FALSE, "h.Next",
                        NoDecision) }
             ELSE { Respond(r, resolved,
                            [ made |-> TRUE, from |-> src, to |-> d.ip,
                              result |-> r ])
                  : r \in auth[<< src, d.ip >>] }

\* Variant of ServeDNSCore that consults no gate.
ServeDNSCoreNoGate(src, zoneMatch, qtype, res, auth) ==
    IF ~zoneMatch
    THEN { NextOrFailure }
    ELSE LET d == GetDestIp(qtype, res, src)
             resolved == qtype \in {"A", "AAAA"}
         IN  IF d.err
             THEN { Did("fallthrough", "next", resolved, FALSE, "h.Next",
                        NoDecision) }
             ELSE { Respond(r, resolved,
                            [ made |-> TRUE, from |-> src, to |-> d.ip,
                              result |-> r ])
                  : r \in auth[<< src, d.ip >>] }

\* Variant of ServeDNSCore: while the gate is closed the handler has no
\* result, it waits for the gate.
ServeDNSCoreWaitsForGate(src, zoneMatch, qtype, res, auth) ==
    IF ~zoneMatch
    THEN { NextOrFailure }
    ELSE IF ~HasSynced
    THEN {}
    ELSE LET d == GetDestIp(qtype, res, src)
             resolved == qtype \in {"A", "AAAA"}
         IN  IF d.err
             THEN { Did("fallthrough", "next", resolved, FALSE, "h.Next",
                        NoDecision) }
             ELSE { Respond(r, resolved,
                            [ made |-> TRUE, from |-> src, to |-> d.ip,
                              result |-> r ])
                  : r \in auth[<< src, d.ip >>] }

\* ServeDNS (handler.go:87-115): the possible results for a query from
\* address src, whose name matches the zone or not; auth[<<from, to>>] are
\* the results TenantAuthorized can return for the pair.
ServeDNSCore(src, zoneMatch, qtype, res, auth) ==
    IF ~zoneMatch
    THEN { NextOrFailure }
    ELSE IF ~HasSynced
    THEN { Did("servfail", "SERVFAIL", FALSE, FALSE, "none", NoDecision) }
    ELSE LET d == GetDestIp(qtype, res, src)
             resolved == qtype \in {"A", "AAAA"}
         IN  IF d.err
             THEN { Did("fallthrough", "next", resolved, FALSE, "h.Next",
                        NoDecision) }
             ELSE { Respond(r, resolved,
                            [ made |-> TRUE, from |-> src, to |-> d.ip,
                              result |-> r ])
                  : r \in auth[<< src, d.ip >>] }

\* The results of h.dnsController.TenantAuthorized for every pair.
Authorizer ==
    [ p \in IPs \X IPs |-> TenantAuthorized(p[1], p[2], Handler) ]

\* Variant of ServeDNSResults that consults no gate.
ServeDNSResultsNoGate(src, zoneMatch, qtype, res) ==
    ServeDNSCoreNoGate(src, zoneMatch, qtype, res, Authorizer)

\* ServeDNS with the plugin's own controller.
ServeDNSResults(src, zoneMatch, qtype, res) ==
    ServeDNSCore(src, zoneMatch, qtype, res, Authorizer)

\* What the resolver gave a query that reached it.
AnswerOf(res) ==
    IF res.err THEN "error"
    ELSE IF Len(res.records) = 0 THEN "empty" ELSE "records"

\* The record of a handled query.
Replied(zoneMatch, qtype, res, r) ==
    [ handled |-> TRUE, zone |-> zoneMatch, gate |-> HasSynced,
      qtype |-> qtype,
      answer |-> IF r.reply.resolver THEN AnswerOf(res) ELSE "none",
      outcome |-> r.reply.outcome, rcode |-> r.reply.rcode,
      resolver |-> r.reply.resolver, engine |-> r.reply.engine,
      next |-> r.reply.next ]

\* Variant of ServeDNS: the handler opens the gate itself.
ServeDNSOpensGate(src, zoneMatch, qtype, res) ==
    /\ startPc \notin {"idle", "failed"}
    /\ \E r \in ServeDNSResults(src, zoneMatch, qtype, res) :
          /\ reply' = Replied(zoneMatch, qtype, res, r)
          /\ decision' = r.decision
    /\ hasSynced' = TRUE
    /\ UNCHANGED << cacheVars, startPc, configVars, call >>

\* A query is served; the server takes queries once the startup hook has
\* returned without error.
ServeDNS(src, zoneMatch, qtype, res) ==
    /\ startPc \notin {"idle", "failed"}
    /\ \E r \in ServeDNSResults(src, zoneMatch, qtype, res) :
          /\ reply' = Replied(zoneMatch, qtype, res, r)
          /\ decision' = r.decision
    /\ UNCHANGED << cacheVars, startPc, hasSynced, configVars, call >>

\* Variant of SourceVerdict: a source that resolves to no namespace is
\* refused.
SourceVerdictFailClosed(src) ==
    IF src.panic THEN "panic"
    ELSE IF src.ns.nil THEN "deny"
    ELSE IF CapsuleTenantLabel \notin DOMAIN src.ns.labels THEN "allow"
    ELSE "continue"

\* TenantAuthorized, lines 139-152: what is decided once the source lookup
\* has returned; "continue" when the destination is looked up next.
SourceVerdict(src) ==
    IF src.panic THEN "panic"
    ELSE IF src.ns.nil THEN "allow"
    ELSE IF CapsuleTenantLabel \notin DOMAIN src.ns.labels THEN "allow"
    ELSE "continue"

\* ServeDNS up to the call of TenantAuthorized (lines 87-110).  A query
\* that does not reach TenantAuthorized is answered at once; for one that
\* does, the call is in flight: its lookups read the caches one after the
\* other, without a lock held across them, while the informers write.
QueryBegin(src, zoneMatch, qtype, res) ==
    /\ startPc \notin {"idle", "failed"}
    /\ call.pc = "idle"
    /\ \E r \in ServeDNSCore(src, zoneMatch, qtype, res,
                              [ p \in IPs \X IPs |-> {"allow"} ]) :
          IF r.reply.engine
          THEN /\ call' = [ pc |-> "source", from |-> r.decision.from,
                            to |-> r.decision.to, qtype |-> qtype,
                            tenant |-> "", began |-> store,
                            raced |-> FALSE ]
               /\ UNCHANGED << decision, reply >>
          ELSE /\ reply' = Replied(zoneMatch, qtype, res, r)
               /\ decision' = r.decision
               /\ UNCHANGED call
    /\ UNCHANGED << cacheVars, startPc, hasSynced, configVars >>

\* TenantAuthorized returns r and ServeDNS ends (lines 110-114).
CallReturns(r) ==
    LET dec == [ made |-> TRUE, from |-> call.from, to |-> call.to,
                 result |-> r ]
        d == Respond(r, call.qtype \in {"A", "AAAA"}, dec)
    IN  /\ reply' = Replied(TRUE, call.qtype,
                            [ err |-> FALSE, records |-> << call.to >> ], d)
        /\ decision' = dec
        /\ call' = [ NoCall EXCEPT !.raced = (store # call.began) ]

\* The next lookup of the call in flight: getObjectByIP of the source
\* (line 139), then, unless the source decides, getObjectByIP of the
\* destination (line 154) and the rules on what it found.
QueryStep ==
    /\ call.pc # "idle"
    /\ IF call.pc = "source"
       THEN \E src \in getObjectByIP(call.from) :
               IF SourceVerdict(src) = "continue"
               THEN /\ call' = [ call EXCEPT
                                   !.pc = "destination",
                                   !.tenant = src.ns.labels[CapsuleTenantLabel] ]
                    /\ UNCHANGED << decision, reply >>
               ELSE CallReturns(SourceVerdict(src))
       ELSE \E dst \in getObjectByIP(call.to) :
               CallReturns(DecideDestination(call.tenant, dst, Handler))
    /\ UNCHANGED << cacheVars, startPc, hasSynced, configVars >>

Next ==
    \/ \E kind \in Kinds : \E o \in ObjsOf(kind) : ClusterApply(kind, o)
    \/ \E kind \in Kinds : \E o \in ObjsOf(kind) : ClusterDelete(kind, o)
    \/ \E kind \in Kinds : Redeliver(kind)
    \/ OnStartup
    \/ StartRun
    \/ \E kind \in Kinds : InformerList(kind)
    \/ \E kind \in Kinds : ApplyEvent(kind)
    \/ StartSynced
    \/ \E src \in IPs, zoneMatch \in BOOLEAN, qtype \in QTypes :
          \E res \in ResolverAnswers(zoneMatch, qtype) :
              ServeDNS(src, zoneMatch, qtype, res)

Spec == Init /\ [][Next]_vars

\* The plugin with its scheduling: the goroutine the startup hook starts
\* with `go` runs, and WaitForCacheSync, which polls the informers it was
\* given, returns once all of them have synced.
SpecFair == Spec /\ WF_vars(StartRun) /\ WF_vars(StartSynced)

\* ------------------------------------------------------------------------
\* The controller alone: the cluster, the informers and Start, with no
\* query served.
NextController ==
    \/ \E kind \in Kinds : \E o \in ObjsOf(kind) : ClusterApply(kind, o)
    \/ \E kind \in Kinds : \E o \in ObjsOf(kind) : ClusterDelete(kind, o)
    \/ \E kind \in Kinds : Redeliver(kind)
    \/ OnStartup
    \/ StartRun
    \/ \E kind \in Kinds : InformerList(kind)
    \/ \E kind \in Kinds : ApplyEvent(kind)
    \/ StartSynced

SpecController == Init /\ [][NextController]_vars

\* ------------------------------------------------------------------------
\* The two streams side by side: Start has run both informers (lines
\* 115-119), both have listed the cluster of BaseCluster, and each has one
\* watch event of its own kind left to apply; the cluster changes once
\* more.

\* The watch events a stream of the kind can deliver after the listing.
EventsOf(kind) ==
    { [ deleted |-> FALSE, obj |-> o ] : o \in ObjsOf(kind) \ BaseCluster[kind] }
    \cup { [ deleted |-> TRUE, obj |-> o ] : o \in BaseCluster[kind] }

InitStreams ==
    /\ \E ep \in EventsOf(PodKind), es \in EventsOf(SvcKind) :
          /\ queue = (PodKind :> << ep >> @@ SvcKind :> << es >>
                       @@ NsKind :> << >>)
          /\ cluster = (PodKind :> ApplyTo(BaseCluster[PodKind], ep)
                         @@ SvcKind :> ApplyTo(BaseCluster[SvcKind], es)
                         @@ NsKind :> BaseCluster[NsKind])
    /\ store = [ k \in Kinds |->
                   IF k = NsKind THEN {} ELSE BaseCluster[k] ]
    /\ running = [ k \in Kinds |-> k # NsKind ]
    /\ informerSynced = [ k \in Kinds |-> k # NsKind ]
    /\ changes = 0
    /\ applied = NoApplied
    /\ everShared = SharedKinds(BaseCluster) \cup SharedKinds(cluster)
    /\ startPc = "blocked"
    /\ hasSynced = TRUE
    /\ config \in Blocks
    /\ controllerBuilt = TRUE
    /\ parse = NoParse
    /\ query = NoQuery
    /\ kubernetesLoaded = TRUE
    /\ kubernetesNext = "handler"
    /\ labelSelector = NilSelector
    /\ namespaceLabelSelector = NilSelector
    /\ call = NoCall
    /\ decision = NoDecision
    /\ reply = NoReply

NextStreams ==
    \/ \E kind \in {PodKind, SvcKind} :
          \E o \in ObjsOf(kind) : ClusterApply(kind, o)
    \/ \E kind \in {PodKind, SvcKind} :
          \E o \in ObjsOf(kind) : ClusterDelete(kind, o)
    \/ \E kind \in {PodKind, SvcKind} : Redeliver(kind)
    \/ \E kind \in {PodKind, SvcKind} : ApplyEvent(kind)

SpecStreams == InitStreams /\ [][NextStreams]_vars

\* ------------------------------------------------------------------------
\* The plugin with the lookups of a query as steps of their own, between
\* which the informers write to the caches; the cluster changes in the
\* kinds whose informers Start runs.
NextSteps ==
    \/ \E kind \in {PodKind, SvcKind} :
          \E o \in ObjsOf(kind) : ClusterApply(kind, o)
    \/ \E kind \in {PodKind, SvcKind} :
          \E o \in ObjsOf(kind) : ClusterDelete(kind, o)
    \/ OnStartup
    \/ StartRun
    \/ \E kind \in Kinds : InformerList(kind)
    \/ \E kind \in Kinds : ApplyEvent(kind)
    \/ StartSynced
    \/ \E src \in IPs, zoneMatch \in BOOLEAN, qtype \in QTypes :
          \E res \in ResolverAnswers(zoneMatch, qtype) :
              QueryBegin(src, zoneMatch, qtype, res)
    \/ QueryStep

SpecSteps == Init /\ [][NextSteps]_vars

\* ------------------------------------------------------------------------
\* The decision procedure while namespaces leave the registry: any cache
\* contents, calls of TenantAuthorized, and namespaces that are deleted in
\* the cluster and removed from the namespace cache.
NextRegistry ==
    \/ \E from \in IPs, to \in IPs : Authorize(from, to)
    \/ \E g \in ObjsOf(NsKind) : ClusterDelete(NsKind, g)
    \/ ApplyEvent(NsKind)

SpecRegistry == InitAuth /\ [][NextRegistry]_vars

\* ------------------------------------------------------------------------
\* The handler alone: ServeDNS around a controller whose gate and whose
\* TenantAuthorized results are given.

\* The results a controller can hand to ServeDNS without panicking.
Verdicts == {"allow", "deny"}

InitHandler ==
    /\ cluster = BaseCluster
    /\ store = [ k \in Kinds |-> {} ]
    /\ running = [ k \in Kinds |-> FALSE ]
    /\ informerSynced = [ k \in Kinds |-> FALSE ]
    /\ queue = [ k \in Kinds |-> << >> ]
    /\ changes = 0
    /\ applied = NoApplied
    /\ everShared = SharedKinds(BaseCluster)
    /\ hasSynced \in BOOLEAN
    /\ startPc = IF hasSynced THEN "blocked" ELSE "waiting"
    /\ labelSelector \in LabelSelectors
    /\ namespaceLabelSelector \in NamespaceLabelSelectors
    /\ config \in Blocks
    /\ Parse(config) = Handler
    /\ controllerBuilt = TRUE
    /\ parse = NoParse
    /\ query = NoQuery
    /\ kubernetesLoaded = TRUE
    /\ kubernetesNext \in {"nil", "handler"}
    /\ call = NoCall
    /\ decision = NoDecision
    /\ reply = NoReply

\* ServeDNS with a controller whose TenantAuthorized returns verdict.
ServeDNSWith(src, zoneMatch, qtype, res, verdict) ==
    /\ \E r \in ServeDNSCore(src, zoneMatch, qtype, res,
                              [ p \in IPs \X IPs |-> {verdict} ]) :
          /\ reply' = Replied(zoneMatch, qtype, res, r)
          /\ decision' = r.decision
    /\ UNCHANGED << cacheVars, startPc, hasSynced, configVars, call >>

NextHandler ==
    \E src \in IPs, zoneMatch \in BOOLEAN, qtype \in QTypes,
       verdict \in Verdicts :
        \E res \in ResolverAnswers(zoneMatch, qtype) :
            ServeDNSWith(src, zoneMatch, qtype, res, verdict)

SpecHandler == InitHandler /\ [][NextHandler]_vars

\* ------------------------------------------------------------------------
\* Capsule.Parse as a function of the capsule block: a handler whose
\* selectors are nil, as the AddPlugin closure makes it, and a block of at
\* most MaxDirectives directives.
InitParse ==
    /\ cluster = BaseCluster
    /\ store = [ k \in Kinds |-> {} ]
    /\ running = [ k \in Kinds |-> FALSE ]
    /\ informerSynced = [ k \in Kinds |-> FALSE ]
    /\ queue = [ k \in Kinds |-> << >> ]
    /\ changes = 0
    /\ applied = NoApplied
    /\ everShared = SharedKinds(BaseCluster)
    /\ startPc = "idle"
    /\ hasSynced = FALSE
    /\ config = [ labels |-> "", namespace_labels |-> "" ]
    /\ controllerBuilt = FALSE
    /\ kubernetesLoaded = FALSE
    /\ kubernetesNext = "nil"
    /\ \E ds \in DirectiveSeqs : parse = [ NoParse EXCEPT !.directives = ds ]
    /\ query = NoQuery
    /\ labelSelector = NilSelector
    /\ namespaceLabelSelector = NilSelector
    /\ call = NoCall
    /\ decision = NoDecision
    /\ reply = NoReply

\* Capsule.Parse (handler.go:44-85) on the block parse.directives.
ParseBlock ==
    /\ parse.pc = "idle"
    /\ LET r == ParseFrom(parse.directives, 1, Handler)
       IN  /\ parse' = [ parse EXCEPT !.pc = "done", !.err = r.err,
                                      !.at = r.at ]
           /\ labelSelector' = r.h.labelSelector
           /\ namespaceLabelSelector' = r.h.namespaceLabelSelector
    /\ UNCHANGED << cacheVars, startPc, hasSynced, config, controllerBuilt,
                    kubernetesLoaded, kubernetesNext, query, call, decision,
                    reply >>

NextParse == ParseBlock

SpecParse == InitParse /\ [][NextParse]_vars

\* ------------------------------------------------------------------------
\* ServeDNS as a function of the resolver's answer: an A or AAAA query of
\* the zone, what the resolver returns for it, and the pairs of addresses
\* TenantAuthorized refuses, all given before the query is served; the gate
\* is open.
InitRecords ==
    /\ cluster = BaseCluster
    /\ store = [ k \in Kinds |-> {} ]
    /\ running = [ k \in Kinds |-> FALSE ]
    /\ informerSynced = [ k \in Kinds |-> FALSE ]
    /\ queue = [ k \in Kinds |-> << >> ]
    /\ changes = 0
    /\ applied = NoApplied
    /\ everShared = SharedKinds(BaseCluster)
    /\ hasSynced = TRUE
    /\ startPc = "blocked"
    /\ labelSelector = NilSelector
    /\ namespaceLabelSelector = NilSelector
    /\ config = [ labels |-> "", namespace_labels |-> "" ]
    /\ controllerBuilt = TRUE
    /\ parse = NoParse
    /\ kubernetesLoaded = TRUE
    /\ kubernetesNext = "handler"
    /\ \E src \in IPs, qtype \in {"A", "AAAA"}, res \in ResolverResults,
          refused \in SUBSET (IPs \X IPs) :
          query = [ served |-> FALSE, src |-> src, qtype |-> qtype,
                    res |-> res, refused |-> refused ]
    /\ call = NoCall
    /\ decision = NoDecision
    /\ reply = NoReply

\* TenantAuthorized as the function that refuses the pairs of refused.
Refusing(refused) ==
    [ p \in IPs \X IPs |-> IF p \in refused THEN {"deny"} ELSE {"allow"} ]

\* ServeDNS (handler.go:87-115) on the query given in advance.
ServeDNSQuery ==
    /\ ~query.served
    /\ \E r \in ServeDNSCore(query.src, TRUE, query.qtype, query.res,
                              Refusing(query.refused)) :
          /\ reply' = Replied(TRUE, query.qtype, query.res, r)
          /\ decision' = r.decision
    /\ query' = [ query EXCEPT !.served = TRUE ]
    /\ UNCHANGED << cacheVars, startPc, hasSynced, labelSelector,
                    namespaceLabelSelector, config, controllerBuilt,
                    kubernetesLoaded, kubernetesNext, parse, call >>

NextRecords == ServeDNSQuery

SpecRecords == InitRecords /\ [][NextRecords]_vars

\* The namespace index as a function of what the namespace informer is
\* handed: namespace objects whose names differ only in case, and one
\* without name, for which the index function has a branch of its own.
NameObjs ==
    [ type : {"*v1.Namespace"}, namespace : {""}, name : {"", "nsA", "nsa"},
      ips : {{}}, labels : {NoLabels, CapsuleTenantLabel :> "t1"} ]

\* The names getNSByName is called with.
LookupNames == {"", "nsA", "nsa", "nsB"}

InitNames ==
    /\ \E n \in { x \in SUBSET NameObjs :
                     \A a, b \in x : KeyOf(a) = KeyOf(b) => a = b } :
          /\ store = (PodKind :> BaseCluster[PodKind]
                       @@ SvcKind :> BaseCluster[SvcKind] @@ NsKind :> n)
          /\ cluster = store
          /\ everShared = SharedKinds(store)
    /\ applied = NoApplied
    /\ running = [ k \in Kinds |-> TRUE ]
    /\ informerSynced = [ k \in Kinds |-> TRUE ]
    /\ queue = [ k \in Kinds |-> << >> ]
    /\ changes = 0
    /\ startPc = "blocked"
    /\ hasSynced = TRUE
    /\ reply = NoReply
    /\ labelSelector = NilSelector
    /\ namespaceLabelSelector = NilSelector
    /\ config = [ labels |-> "", namespace_labels |-> "" ]
    /\ controllerBuilt = TRUE
    /\ parse = NoParse
    /\ query = NoQuery
    /\ kubernetesLoaded = TRUE
    /\ kubernetesNext = "handler"
    /\ call = NoCall
    /\ decision = NoDecision

NextNames ==
    \/ \E g \in NameObjs : ClusterApply(NsKind, g)
    \/ \E g \in NameObjs : ClusterDelete(NsKind, g)
    \/ ApplyEvent(NsKind)

SpecNames == InitNames /\ [][NextNames]_vars

\* The statuses the handler after this plugin can answer a query with.
NextStatuses == {"NOERROR", "NXDOMAIN", "SERVFAIL"}

\* The status the client receives for result r of ServeDNS when the handler
\* ServeDNS called, if any, answered with nextStatus.
StatusSeen(r, nextStatus) ==
    IF r.reply.rcode = "next" THEN nextStatus ELSE r.reply.rcode

\* What the resolver gives for a name that does not exist: an error or no
\* record.
AbsentAnswers(qtype) ==
    { res \in ResolverAnswers(TRUE, qtype) :
        res.err \/ Len(res.records) = 0 }

\* ------------------------------------------------------------------------
\* What the caches say about an address, read off the stores through the
\* index functions.

\* The pods and services the reverse indexes assign ip to.
Holders(ip) ==
    UNION { { o \in store[reverseIpInformers[i]] :
                \E ix \in Indexers(reverseIpInformers[i]) :
                    ip \in IndexFunc(ix, o) }
          : i \in 1..Len(reverseIpInformers) }

\* The registered namespaces owning some holder of ip.
GroupsOf(ip) ==
    { g \in store[NsKind] :
        \E o \in Holders(ip) : o.namespace \in IndexFunc(NsIndex, g) }

\* ip maps to group g: ip is held, and every holder lives in g, which is
\* in the registry.
MapsTo(ip, g) ==
    /\ Holders(ip) # {}
    /\ g \in store[NsKind]
    /\ \A o \in Holders(ip) : o.namespace = g.name

HasTenant(g) == CapsuleTenantLabel \in DOMAIN g.labels
TenantOf(g) == g.labels[CapsuleTenantLabel]

\* Some configured whitelist selector matches the destination address:
\* one of its holders, or one of its groups.
Whitelisted(ip) ==
    \/ /\ ~labelSelector.nil
       /\ \E o \in Holders(ip) : Matches(labelSelector, o.labels)
    \/ /\ ~namespaceLabelSelector.nil
       /\ \E g \in GroupsOf(ip) : Matches(namespaceLabelSelector, g.labels)

\* ------------------------------------------------------------------------
\* C1: when the source maps to a group of tenant T1, the destination to a
\* group of a different tenant T2, and no whitelist selector matches the
\* destination, TenantAuthorized returns deny.
C1_CrossTenantDenied ==
    decision.made =>
        \A g1, g2 \in store[NsKind] :
            ( /\ MapsTo(decision.from, g1) /\ HasTenant(g1)
              /\ MapsTo(decision.to, g2) /\ HasTenant(g2)
              /\ TenantOf(g1) # TenantOf(g2)
              /\ ~Whitelisted(decision.to) )
            => decision.result = "deny"

\* C2: when source and destination map to groups carrying the same tenant
\* value, TenantAuthorized returns allow, whatever the selectors.
C2_SameTenantAllowed ==
    decision.made =>
        \A g1, g2 \in store[NsKind] :
            ( /\ MapsTo(decision.from, g1) /\ HasTenant(g1)
              /\ MapsTo(decision.to, g2) /\ HasTenant(g2)
              /\ TenantOf(g1) = TenantOf(g2) )
            => decision.result = "allow"

\* A decision between two different namespaces of one tenant, with no
\* selector configured.
C2_Witness ==
    /\ decision.made /\ decision.result = "allow"
    /\ labelSelector.nil /\ namespaceLabelSelector.nil
    /\ \E g1, g2 \in store[NsKind] :
          /\ g1.name # g2.name
          /\ MapsTo(decision.from, g1) /\ HasTenant(g1)
          /\ MapsTo(decision.to, g2) /\ HasTenant(g2)
          /\ TenantOf(g1) = TenantOf(g2)

\* C3: fail-open.  A source held by no reverse index is allowed for every
\* destination; a tenanted source is allowed when the destination is
\* held by no reverse index.
C3_FailOpen ==
    decision.made =>
        /\ Holders(decision.from) = {} => decision.result = "allow"
        /\ ( /\ \E g \in store[NsKind] :
                    MapsTo(decision.from, g) /\ HasTenant(g)
             /\ Holders(decision.to) = {} )
           => decision.result = "allow"

\* An unknown source asking for a destination owned by a tenant.
C3_Witness ==
    /\ decision.made /\ decision.result = "allow"
    /\ Holders(decision.from) = {}
    /\ \E g \in store[NsKind] : MapsTo(decision.to, g) /\ HasTenant(g)

\* C4: a source mapping to a group without tenant attribute is allowed
\* for every destination.
C4_UntenantedSourceAllowed ==
    ( /\ decision.made
      /\ \E g \in store[NsKind] :
            MapsTo(decision.from, g) /\ ~HasTenant(g) )
    => decision.result = "allow"

\* An untenanted source asking for a destination owned by a tenant, not
\* whitelisted.
C4_Witness ==
    /\ decision.made /\ decision.result = "allow"
    /\ \E g \in store[NsKind] : MapsTo(decision.from, g) /\ ~HasTenant(g)
    /\ \E g \in store[NsKind] : MapsTo(decision.to, g) /\ HasTenant(g)
    /\ ~Whitelisted(decision.to)

\* C5: a tenanted source asking for a destination that maps to a known
\* group without tenant attribute, no whitelist selector matching, is
\* denied.
C5_UntenantedDestinationDenied ==
    decision.made =>
        \A g1, g2 \in store[NsKind] :
            ( /\ MapsTo(decision.from, g1) /\ HasTenant(g1)
              /\ MapsTo(decision.to, g2) /\ ~HasTenant(g2)
              /\ ~Whitelisted(decision.to) )
            => decision.result = "deny"

C7_GroupWhitelistAllowed ==
    ( /\ decision.made
      /\ ~namespaceLabelSelector.nil
      /\ \E g \in store[NsKind] :
            MapsTo(decision.from, g) /\ HasTenant(g)
      /\ \E g \in store[NsKind] :
            /\ MapsTo(decision.to, g)
            /\ Matches(namespaceLabelSelector, g.labels) )
    => decision.result = "allow"

\* A tenanted source asking for a destination in a whitelisted group
\* that carries no tenant attribute.
C7_Witness ==
    /\ decision.made /\ decision.result = "allow"
    /\ ~namespaceLabelSelector.nil
    /\ \E g \in store[NsKind] : MapsTo(decision.from, g) /\ HasTenant(g)
    /\ \E g \in store[NsKind] :
          /\ MapsTo(decision.to, g) /\ ~HasTenant(g)
          /\ Matches(namespaceLabelSelector, g.labels)

\* The only situation in which a deny may be returned: the source resolves
\* to a tenanted group and the destination to a known group that has no
\* tenant or another tenant.
DenyAdmissible(from, to) ==
    \E g1 \in GroupsOf(from), g2 \in GroupsOf(to) :
        /\ HasTenant(g1)
        /\ ~HasTenant(g2) \/ TenantOf(g2) # TenantOf(g1)

\* C8: TenantAuthorized returns deny only in the admissible situation; in
\* every other situation it returns allow.
C8_DenyOnlyWhenMismatched ==
    decision.made =>
        /\ decision.result = "deny"
              => DenyAdmissible(decision.from, decision.to)
        /\ ~DenyAdmissible(decision.from, decision.to)
              => decision.result = "allow"

\* Both addresses held, no deny admissible, and the call allowed.
C8_Witness ==
    /\ decision.made /\ decision.result = "allow"
    /\ Holders(decision.from) # {} /\ Holders(decision.to) # {}
    /\ decision.from # decision.to
    /\ ~DenyAdmissible(decision.from, decision.to)

\* ------------------------------------------------------------------------
\* C9: a zone-matching query handled while the gate is not ready is
\* answered with server failure, and neither the resolver, nor
\* TenantAuthorized, nor a next handler is invoked.
C9_NotReadyServerFailure ==
    ( reply.handled /\ reply.zone /\ ~reply.gate )
    => /\ reply.outcome = "servfail"
       /\ reply.rcode = "SERVFAIL"
       /\ ~reply.resolver
       /\ ~reply.engine
       /\ reply.next = "none"
       /\ ~decision.made

\* An A query answered with server failure while Start waits for the
\* caches.
C9_Witness ==
    /\ reply.handled /\ reply.zone /\ ~reply.gate
    /\ reply.qtype = "A"
    /\ reply.outcome = "servfail"
    /\ startPc = "waiting"

\* C10: whenever the gate reports ready, the initial listing of the pod
\* stream, the service stream and the namespace stream has completed, and
\* no decision is made before the namespace cache has been listed.
C10_GateImpliesAllListed ==
    /\ hasSynced => \A k \in Kinds : informerSynced[k]
    /\ decision.made => informerSynced[NsKind]

\* ------------------------------------------------------------------------
\* C11: the gate is monotonic: once HasSynced has returned true it returns
\* true in every later state, whatever the cluster, the informers and the
\* handler do afterwards.
C11_GateMonotonic == [][HasSynced => HasSynced']_vars

\* The gate is open, a query was served through it, the cluster has
\* changed and an informer has applied a watch event.
C11_Witness ==
    /\ HasSynced
    /\ reply.handled /\ reply.gate
    /\ changes >= 1
    /\ applied.done

\* C12: with the gate ready, a zone-matching A or AAAA query for which the
\* resolver returns an error or no record is handed to the next handler,
\* once, TenantAuthorized is not called and the plugin writes no response.
C12_ResolverFailureFallsThrough ==
    ( /\ reply.handled /\ reply.zone /\ reply.gate
      /\ reply.qtype \in {"A", "AAAA"}
      /\ reply.answer \in {"error", "empty"} )
    => /\ reply.outcome = "fallthrough"
       /\ reply.next = "h.Next"
       /\ reply.rcode = "next"
       /\ ~reply.engine
       /\ ~decision.made

\* An AAAA query whose resolution came back empty fell through.
C12_Witness ==
    /\ reply.handled /\ reply.zone /\ reply.gate
    /\ reply.qtype = "AAAA"
    /\ reply.answer = "empty"
    /\ reply.outcome = "fallthrough"

\* C13: whenever TenantAuthorized returns deny for a query, ServeDNS
\* answers with the no-error status through BackendError, never a failure
\* status, and does not invoke the next handler.
C13_DenyAnswersNoError ==
    ( reply.handled /\ decision.made /\ decision.result = "deny" )
    => /\ reply.outcome = "denied"
       /\ reply.rcode = "NOERROR"
       /\ reply.next = "none"

\* A refused A query.
C13_Witness ==
    /\ reply.handled /\ reply.zone /\ reply.gate
    /\ reply.qtype = "A"
    /\ decision.made /\ decision.result = "deny"
    /\ reply.rcode = "NOERROR"

\* C14: whenever TenantAuthorized returns allow for a query, ServeDNS
\* forwards it to the next handler, once, writes no response of its own and
\* returns the next handler's status.
C14_AllowForwards ==
    ( reply.handled /\ decision.made /\ decision.result = "allow" )
    => /\ reply.outcome = "forward"
       /\ reply.next = "h.Next"
       /\ reply.rcode = "next"

\* An allowed A query whose destination is the resolver's first record.
C14_Witness ==
    /\ reply.handled /\ reply.zone /\ reply.gate
    /\ reply.qtype = "A" /\ reply.answer = "records"
    /\ decision.made /\ decision.result = "allow"
    /\ reply.outcome = "forward"

\* C15: lookup completeness: whenever the index of a tracked kind assigns
\* an address to a resource, getObjectByIP of that address returns a
\* resource holding it, with its namespace when the namespace is in the
\* registry, and not (nil, nil).
C15_LookupComplete ==
    \A ip \in IPs :
        Holders(ip) # {} =>
            \A r \in getObjectByIP(ip) :
                /\ ~r.panic
                /\ \E o \in Holders(ip) :
                      /\ r.obj = SomeObj(o)
                      /\ \A g \in store[NsKind] :
                            g.name = o.namespace => r.ns = SomeNs(g)

\* ------------------------------------------------------------------------
\* The step of an informer of kind k that applies the event at the head of
\* its queue.
Applies(k) ==
    /\ running[k]
    /\ queue[k] # << >>
    /\ queue'[k] = Tail(queue[k])

\* C16: when an event for a resource has been applied, the index returns
\* that resource only as the event left it: under no address after a
\* delete, after an update only under the addresses of the new version
\* and never in the version stored before; the cache holds one version per
\* resource, and getObjectByIP returns no resource for an address the
\* index does not assign to it.
C16_StaleAddressesRemoved ==
    [][ \A k \in Kinds :
          Applies(k) =>
            LET e == Head(queue[k])
            IN  /\ \A ix \in Indexers(k), ip \in IPs :
                      \A o \in ByIndex(k, ix, ip).objs' :
                          /\ ip \in IndexFunc(ix, o)
                          /\ KeyOf(o) = KeyOf(e.obj)
                                => ( ~e.deleted /\ o = e.obj )
                /\ \A x, y \in store'[k] : KeyOf(x) = KeyOf(y) => x = y
                /\ \A ip \in IPs :
                      \A r \in getObjectByIP(ip)' :
                          ( ~r.panic /\ ~r.obj.nil )
                          => \E o \in Holders(ip)' : r.obj = SomeObj(o)
      ]_vars

\* An update that took an address away from a resource has been applied,
\* and the index no longer lists the resource under that address.
C16_Witness ==
    /\ applied.done /\ ~applied.deleted
    /\ \E x \in applied.old, n \in applied.new, ip \in IPs :
          \E ix \in Indexers(applied.kind) :
              /\ ip \in IndexFunc(ix, x)
              /\ ip \notin IndexFunc(ix, n)
              /\ n \in store[applied.kind]
              /\ \A o \in ByIndex(applied.kind, ix, ip).objs :
                    KeyOf(o) # KeyOf(x)

\* C17: applying an add or update event a second time with identical
\* content leaves the cache as the first application left it: for every
\* kind, the namespace registry included, and every object of the cluster,
\* a second application changes nothing and the object is stored once; and
\* when an informer applies an event whose object its cache holds
\* unchanged, the cache, the index lists and the results of getObjectByIP
\* and getNSByName stay as they are.
C17_ApplyIdempotent ==
    [][ /\ \A k \in Kinds : \A o \in cluster[k] :
              LET e == [ deleted |-> FALSE, obj |-> o ]
                  once == ApplyTo(store[k], e)
              IN  /\ ApplyTo(once, e) = once
                  /\ Cardinality({ x \in once : KeyOf(x) = KeyOf(o) }) = 1
        /\ \A k \in Kinds :
              ( /\ Applies(k)
                /\ ~Head(queue[k]).deleted
                /\ Head(queue[k]).obj \in store[k] )
              => /\ store' = store
                 /\ \A ix \in Indexers(k), ip \in IPs :
                       ByIndex(k, ix, ip)' = ByIndex(k, ix, ip)
                 /\ \A ip \in IPs : getObjectByIP(ip)' = getObjectByIP(ip)
                 /\ \A n \in NsNames : getNSByName(n)' = getNSByName(n)
      ]_vars

\* An event was applied whose object the cache held already, unchanged,
\* and the cache holds it still.
C17_Witness ==
    /\ applied.done /\ ~applied.deleted
    /\ applied.new # {}
    /\ applied.old = applied.new
    /\ applied.new \subseteq store[applied.kind]

\* C18: in every reachable state each address is indexed to at most one
\* resource of a given kind.
C18_OnePerKind ==
    \A k \in Kinds : \A ix \in Indexers(k), ip \in IPs :
        Cardinality(ByIndex(k, ix, ip).objs) <= 1

\* C18, amended: in every reachable state each address is indexed to at
\* most one resource of a given kind, as long as the cluster has never held
\* two resources of that kind with one address.
C18_OnePerKindWhenUnshared ==
    \A k \in Kinds \ everShared : \A ix \in Indexers(k), ip \in IPs :
        Cardinality(ByIndex(k, ix, ip).objs) <= 1

\* An update replaced the stored version of a resource of a kind that never
\* shared an address, and its address is indexed to that resource alone.
C18_Witness ==
    /\ applied.done /\ ~applied.deleted
    /\ applied.kind \notin everShared
    /\ applied.old # {} /\ applied.old # applied.new
    /\ \E n \in applied.new, ip \in IPs :
          \E ix \in Indexers(applied.kind) :
              ByIndex(applied.kind, ix, ip).objs = {n}

\* C19: no step of query handling changes the caches, the namespace
\* registry, the gate or the selectors: a step that records a query leaves
\* them as they were, a cache changes only in a step of its running
\* informer (its listing, or an event applied), the gate changes only in
\* the step of Start that follows WaitForCacheSync, and the selectors
\* never change.
C19_QueryHandlingReadOnly ==
    [][ /\ ( reply' # reply \/ decision' # decision )
              => UNCHANGED << store, informerSynced, queue, hasSynced,
                              labelSelector, namespaceLabelSelector >>
        /\ \A k \in Kinds :
              store'[k] # store[k]
              => /\ running[k]
                 /\ \/ ~informerSynced[k] /\ informerSynced'[k]
                    \/ Applies(k)
                 /\ reply' = reply /\ decision' = decision
        /\ hasSynced' # hasSynced
              => /\ startPc = "waiting" /\ startPc' = "blocked"
                 /\ reply' = reply /\ decision' = decision
        /\ UNCHANGED << labelSelector, namespaceLabelSelector >>
      ]_vars

\* A query went through TenantAuthorized and its lookups while both reverse
\* caches held objects and the operator had configured a whitelist.
C19_Witness ==
    /\ reply.handled /\ reply.engine /\ decision.made
    /\ store[PodKind] # {} /\ store[SvcKind] # {}
    /\ config.labels # ""
    /\ hasSynced

\* C20: when the initial listing of a tracked stream (pods, services,
\* namespaces) has not completed, the gate is not ready and every
\* zone-matching query is answered with server failure, without a call of
\* TenantAuthorized.
C20_UnsyncedStreamServerFailure ==
    ( \E k \in Kinds : ~informerSynced[k] )
    => /\ ~HasSynced
       /\ ( reply.handled /\ reply.zone )
            => /\ reply.outcome = "servfail"
               /\ reply.rcode = "SERVFAIL"
               /\ ~reply.engine

\* ------------------------------------------------------------------------
\* C21: every TenantAuthorized call evaluates the whitelist rules against
\* the selectors the operator gave in the capsule block: the handler's
\* labelSelector and namespaceLabelSelector are what Parse makes of the
\* block's labels and namespace_labels directives.
C21_SelectorsAsConfigured ==
    ( reply.handled /\ decision.made ) => Handler = Parse(config)

\* C22: when the kubernetes plugin is not loaded, the startup hook returns
\* an error, no informer is ever run, Start never runs and HasSynced never
\* returns true.
C22_NoKubernetesNoStart ==
    ~kubernetesLoaded
    => /\ startPc \in {"idle", "failed"}
       /\ \A k \in Kinds : ~running[k] /\ ~informerSynced[k]
       /\ ~HasSynced
       /\ ~reply.handled

\* The startup hook has returned its error, and the cluster has changed
\* since.
C22_Witness ==
    /\ ~kubernetesLoaded
    /\ startPc = "failed"
    /\ changes >= 1
    /\ ~HasSynced

UpstreamHolders(ip) ==
    UNION { { o \in cluster[reverseIpInformers[i]] : ip \in o.ips }
          : i \in 1..Len(reverseIpInformers) }

\* Start has opened the gate and blocks, and no informer has an event left
\* to apply: unless the cluster changes again, no cache changes again.
Quiescent ==
    /\ startPc = "blocked"
    /\ \A k \in Kinds : queue[k] = << >>

\* C25: eventual consistency.  Once the plugin is quiescent, every lookup
\* answers according to the cluster: getNSByName finds every namespace the
\* API server holds, as it is there, and getObjectByIP finds a resource for
\* exactly the addresses some pod or service holds there.
C25_QuiescentLookupsCurrent ==
    Quiescent
    => /\ \A g \in cluster[NsKind] : getNSByName(g.name) = { SomeNs(g) }
       /\ \A ip \in IPs : \A r \in getObjectByIP(ip) :
             /\ ~r.panic
             /\ r.obj.nil <=> UpstreamHolders(ip) = {}

\* C28: with the gate ready, a query in the zone for a record type other
\* than A and AAAA is forwarded to the next handler and never refused,
\* whatever the caches hold and whatever the informers write between the
\* lookups of its TenantAuthorized call.
C28_OtherTypesForwarded ==
    ( reply.handled /\ reply.zone /\ reply.gate /\ reply.qtype = "other" )
    => /\ reply.engine /\ ~reply.resolver
       /\ decision.made /\ decision.to = decision.from
       /\ decision.result = "allow"
       /\ reply.outcome = "forward"
       /\ reply.next = "h.Next"

\* A query of another type was forwarded, and a cache was written between
\* the beginning of the query and the return of TenantAuthorized.
C28_Witness ==
    /\ reply.handled /\ reply.zone /\ reply.gate /\ reply.qtype = "other"
    /\ reply.outcome = "forward"
    /\ call.pc = "idle" /\ call.raced

\* ------------------------------------------------------------------------
\* What the indexes and the registry hold for ip: the holders in the first
\* index of reverseIpInformers that has any, each with its namespace from
\* the registry, or nothing when no index holds ip.
IndexHolders(i, ip) ==
    { o \in store[reverseIpInformers[i]] :
        \E ix \in Indexers(reverseIpInformers[i]) : ip \in IndexFunc(ix, o) }

FirstHolders(ip) ==
    IF \E i \in 1..Len(reverseIpInformers) : IndexHolders(i, ip) # {}
    THEN IndexHolders(CHOOSE i \in 1..Len(reverseIpInformers) :
                         /\ IndexHolders(i, ip) # {}
                         /\ \A j \in 1..(i - 1) : IndexHolders(j, ip) = {},
                      ip)
    ELSE {}

Registered(name) ==
    IF \E g \in store[NsKind] : g.name = name
    THEN { SomeNs(g) : g \in { x \in store[NsKind] : x.name = name } }
    ELSE { NilNs }

IndexedLookups(ip) ==
    IF FirstHolders(ip) = {}
    THEN { [ ns |-> NilNs, obj |-> NilObj ] }
    ELSE UNION { { [ ns |-> n, obj |-> SomeObj(o) ] :
                   n \in Registered(o.namespace) }
               : o \in FirstHolders(ip) }

\* The seven rules, in their order, on a source and a destination lookup.
SevenRules(src, dst) ==
    IF src.ns.nil THEN "allow"
    ELSE IF CapsuleTenantLabel \notin DOMAIN src.ns.labels THEN "allow"
    ELSE IF dst.ns.nil THEN "allow"
    ELSE IF /\ ~dst.obj.nil /\ ~labelSelector.nil
            /\ Matches(labelSelector, dst.obj.labels) THEN "allow"
    ELSE IF /\ ~namespaceLabelSelector.nil
            /\ Matches(namespaceLabelSelector, dst.ns.labels) THEN "allow"
    ELSE IF CapsuleTenantLabel \notin DOMAIN dst.ns.labels THEN "deny"
    ELSE IF src.ns.labels[CapsuleTenantLabel]
              = dst.ns.labels[CapsuleTenantLabel]
         THEN "allow" ELSE "deny"

\* C26: the result of every TenantAuthorized call is what the seven rules
\* give on one state of the indexes and the registry: on the state the
\* caches are in when no write falls between the call and its return.
C26_ResultOfOneSnapshot ==
    decision.made
    => decision.result \in
          { SevenRules(src, dst) : src \in IndexedLookups(decision.from),
                                   dst \in IndexedLookups(decision.to) }

\* C27: getObjectByIP returns the match of the first index that holds the
\* address, pods before services, with the namespace the registry has for
\* it or none, and nothing only when no index holds the address.
C27_FirstIndexMatchReturned ==
    \A ip \in IPs :
        { [ ns |-> r.ns, obj |-> r.obj ] : r \in getObjectByIP(ip) }
            \subseteq IndexedLookups(ip)

\* C29: TenantAuthorized is deterministic: on the contents the caches have,
\* a call for the pair a decision was made for can only return the result
\* of that decision, also when two pods hold the same address.
C29_Deterministic ==
    /\ \A from \in IPs, to \in IPs :
          Cardinality(TenantAuthorized(from, to, Handler)) = 1
    /\ decision.made
       => TenantAuthorized(decision.from, decision.to, Handler)
              = { decision.result }

\* A decision about an address two pods of different tenants hold, asked
\* from an address whose pod is in a namespace with a tenant.
C29_Witness ==
    /\ decision.made
    /\ \E x, y \in IndexHolders(1, decision.to) :
          /\ x # y
          /\ \E g, h \in store[NsKind] :
                /\ g.name = x.namespace /\ h.name = y.namespace
                /\ HasTenant(g) /\ HasTenant(h)
                /\ TenantOf(g) # TenantOf(h)
                /\ \E o \in Holders(decision.from) : o.namespace = g.name

\* ------------------------------------------------------------------------
\* The ways ServeDNS returns.
Outcomes == {"nextOrFailure", "servfail", "fallthrough", "denied", "forward"}

C31_ListedThenReady ==
    /\ ( /\ startPc \in {"start", "waiting", "blocked"}
          /\ \A i \in 1..Len(reverseIpInformers) :
                informerSynced[reverseIpInformers[i]] )
       ~> HasSynced
    /\ [][ ( HasSynced /\ reply' # reply /\ reply'.zone )
            => reply'.outcome # "servfail" ]_vars

\* Start has opened the gate after both listings and blocks on stopCh; an
\* AAAA query in the zone was served past the gate.
C31_Witness ==
    /\ startPc = "blocked" /\ HasSynced
    /\ \A i \in 1..Len(reverseIpInformers) :
          informerSynced[reverseIpInformers[i]]
    /\ reply.handled /\ reply.zone /\ reply.gate
    /\ reply.qtype = "AAAA"
    /\ reply.outcome \in {"fallthrough", "forward"}

\* C32: a query whose name matches no zone is passed on without the gate,
\* the resolver or TenantAuthorized being consulted, and is answered
\* neither with a refusal nor with server failure, gate open or not.
C32_OutsideZonePassedOn ==
    ( reply.handled /\ ~reply.zone )
    => /\ reply.outcome = "nextOrFailure"
       /\ ~reply.resolver /\ ~reply.engine /\ ~decision.made
       /\ reply.next = "kubernetesHandler.Next"
       /\ reply.rcode \notin {"NOERROR", "SERVFAIL"}

\* C32, as the code has it: the query goes to the handler after the
\* kubernetes plugin, whatever the gate says; when no handler follows the
\* kubernetes plugin it is passed to none and the status is server
\* failure.
C32_OutsideZoneNextOrFailure ==
    ( reply.handled /\ ~reply.zone )
    => /\ reply.outcome = "nextOrFailure"
       /\ ~reply.resolver /\ ~reply.engine /\ ~decision.made
       /\ IF kubernetesNext = "nil"
          THEN reply.next = "none" /\ reply.rcode = "SERVFAIL"
          ELSE reply.next = "kubernetesHandler.Next" /\ reply.rcode = "next"

\* A query outside the zone was passed on while Start waited for the
\* caches and the gate was closed.
C32_Witness ==
    /\ reply.handled /\ ~reply.zone /\ ~reply.gate
    /\ ~HasSynced /\ startPc = "waiting"
    /\ kubernetesNext = "handler"
    /\ reply.next = "kubernetesHandler.Next"

\* C33: the pod stream and the service stream do not disturb each other.
\* A step that applies an event of one kind writes that kind's cache only,
\* and what it writes depends on that cache and that event alone; and
\* whenever a stream has no event left, its cache holds what the API server
\* holds of that kind, however the steps of the other stream fell between
\* its own.
C33_StreamsIndependent ==
    /\ [][ \A k \in {PodKind, SvcKind} :
              Applies(k)
              => /\ store'[k] = ApplyTo(store[k], Head(queue[k]))
                 /\ \A j \in Kinds \ {k} :
                       store'[j] = store[j] /\ queue'[j] = queue[j]
          ]_vars
    /\ [] ( \A k \in {PodKind, SvcKind} :
               queue[k] = << >> => store[k] = cluster[k] )

\* Both streams have applied an event that changed their cache, and both
\* caches hold what the API server holds.
C33_Witness ==
    /\ applied.done
    /\ \A k \in {PodKind, SvcKind} :
          /\ queue[k] = << >>
          /\ store[k] # BaseCluster[k]
          /\ store[k] = cluster[k]

\* C34: when newDNSController fails, setup returns an error and puts no
\* handler into the chain, and no query is served.
C34_NoControllerSetupFails ==
    ~controllerBuilt
    => /\ SetupResult.err
       /\ SetupResult.handler = "nil"
       /\ startPc \in {"idle", "failed"}
       /\ ~reply.handled

\* ------------------------------------------------------------------------
\* A directive Parse returns an error at: a name it does not know, no
\* argument, or arguments that do not form a selector.
BadDirective(d) ==
    \/ d.name \notin {"labels", "namespace_labels"}
    \/ d.args = << >>
    \/ Join(d.args) \notin SelectorStrings

\* The selector of the last directive called name in ds, nil without one.
LastValue(ds, name) ==
    IF \E i \in 1..Len(ds) : ds[i].name = name
    THEN ParseToLabelSelector(
             Join(ds[CHOOSE i \in 1..Len(ds) :
                        /\ ds[i].name = name
                        /\ \A j \in (i + 1)..Len(ds) : ds[j].name # name
                    ].args))
    ELSE NilSelector

\* C35: Parse returns nil exactly when every directive of the block is
\* labels or namespace_labels with at least one argument and its arguments
\* form a label selector; otherwise it returns an error at the first
\* directive that is not.  When it returns nil, each selector is the one
\* of the last directive of its name.
C35_ParseOutcome ==
    parse.pc = "done"
    => LET ds == parse.directives
       IN  /\ parse.err = "" <=> \A i \in 1..Len(ds) : ~BadDirective(ds[i])
           /\ parse.err # ""
              => /\ parse.at \in 1..Len(ds)
                 /\ BadDirective(ds[parse.at])
                 /\ \A j \in 1..(parse.at - 1) : ~BadDirective(ds[j])
           /\ parse.err = ""
              => /\ labelSelector = LastValue(ds, "labels")
                 /\ namespaceLabelSelector = LastValue(ds, "namespace_labels")

\* Parse returned nil on a block with two labels directives of different
\* selectors.
C35_Witness ==
    /\ parse.pc = "done" /\ parse.err = ""
    /\ Len(parse.directives) = 2
    /\ parse.directives[1].name = "labels"
    /\ parse.directives[2].name = "labels"
    /\ ParseToLabelSelector(Join(parse.directives[1].args))
          # ParseToLabelSelector(Join(parse.directives[2].args))
    /\ labelSelector = ParseToLabelSelector(Join(parse.directives[2].args))

\* ------------------------------------------------------------------------
\* The resolver result that holds only the first record of res.
FirstOnly(res) == [ err |-> FALSE, records |-> << res.records[1] >> ]

\* C36: when the resolver returned several records, TenantAuthorized was
\* asked about the first one, and what ServeDNS did is what it does when
\* the resolver returns only that record.
C36_FirstRecordDecides ==
    ( query.served /\ ~query.res.err /\ Len(query.res.records) >= 2 )
    => /\ decision.made
       /\ decision.to = query.res.records[1]
       /\ \E r \in ServeDNSCore(query.src, TRUE, query.qtype,
                                 FirstOnly(query.res),
                                 Refusing(query.refused)) :
             /\ reply = Replied(TRUE, query.qtype, FirstOnly(query.res), r)
             /\ decision = r.decision

\* A query was forwarded for which the resolver returned two different
\* records, the second one refused for its source and the first one not.
C36_Witness ==
    /\ query.served /\ ~query.res.err
    /\ Len(query.res.records) = 2
    /\ query.res.records[1] # query.res.records[2]
    /\ << query.src, query.res.records[1] >> \notin query.refused
    /\ << query.src, query.res.records[2] >> \in query.refused
    /\ reply.handled /\ reply.outcome = "forward"
    /\ decision.to = query.res.records[1]

\* ------------------------------------------------------------------------
\* C37: getNSByName(n) returns a namespace only if the cache holds a
\* namespace whose name is the string n, and then that one; the index
\* holds at most one namespace per name, and none under the empty name.
C37_ExactNameLookup ==
    \A n \in LookupNames :
        /\ \A r \in getNSByName(n) :
              ~r.nil => /\ r.name = n
                        /\ \E g \in store[NsKind] :
                              g.name = n /\ r = SomeNs(g)
        /\ Cardinality(ByIndex(NsKind, NsIndex, n).objs) <= 1
        /\ n = "" => getNSByName(n) = { NilNs }

\* The namespace informer applied an event, and its cache holds a
\* namespace without name and the namespace nsa but not nsA: the lookup of
\* nsa returns it, the lookup of nsA returns nothing.
C37_Witness ==
    /\ applied.done /\ applied.kind = NsKind
    /\ \E g \in store[NsKind] : g.name = ""
    /\ \E g \in store[NsKind] : g.name = "nsa"
    /\ \A g \in store[NsKind] : g.name # "nsA"
    /\ getNSByName("nsA") = { NilNs }
    /\ NilNs \notin getNSByName("nsa")

====
